---- MODULE Spec2Model ----
(***************************************************************************)
(* Raw-terminal input engine of the Brahma CLI (src/lib/client.js):        *)
(*   - getMultiLineInput: the line editor driven by raw stdin chunks       *)
(*   - startFileModeInteractive: the menu key-wait and the file-mode loop  *)
(* Strings are sequences of UTF-16 code units (small integers).            *)
(***************************************************************************)
EXTENDS Integers, Sequences, FiniteSets, TLC

VARIABLES
    entry,            \* which public operation the caller invokes
    pc,               \* position of the running operation
    isRaw,            \* process.stdin.isRaw
    originalRawMode,  \* getMultiLineInput: saved raw-mode flag
    listeners,        \* number of stdin "data" listeners registered
    sinkBroken,       \* the output sink throws on the next write
    inputBuffer,      \* getMultiLineInput: committed text
    currentLine,      \* getMultiLineInput: line being edited
    cursorPos,        \* getMultiLineInput: cursor column in currentLine
    result,           \* value getMultiLineInput resolved with
    pushed,           \* history: lines pushed by a lone LF, in order
    consumed,         \* history: bytes (line editor) or chunks (menu) delivered
    handled,          \* history: bytes the line editor's loop has decoded
    cancelSeen,       \* history: stream position of the byte decoded as Cancel
    resolvedBy,       \* history: the chunk that resolved the key-wait
    rawBeforeWait,    \* history: isRaw when the current key-wait began
    selectedIndex,    \* file mode: highlighted option (0-based)
    exitRequested,    \* file mode: loop flag
    isProcessing,     \* file mode: request in flight flag
    choice,           \* file mode: value the key-wait resolved with
    navTrace,         \* history: navigation keys handled ("U"/"D")
    idxTrace,         \* history: selectedIndex at start and after each nav key
    exitCode,         \* process exit code, -1 while running
    traced,           \* exploration: record the per-unit history below
    keyed,            \* exploration: every chunk is one whole keystroke
    build,            \* which client the CLI loads: "lib" (src/lib/client.js) or
                      \* "alt" (the second client of src/unnamed/part_004)
    isTTY,            \* stdin is an interactive terminal (has setRawMode)
    failure,          \* what the caller observes of a failed operation
    tempDir,          \* this.tempDir is set
    tempDirExists,    \* the temporary directory exists on disk
    inputFile,        \* content of input.txt
    outputFile,       \* content of output.txt
    lastOutcome,      \* history: how the last "Process Input" request ended
    stream,           \* history: bytes the line editor has decoded, in order
    pre,              \* history: editor state before the last decoded unit
    lastUnit,         \* history: bytes consumed by the last loop iteration
    lastFollow,       \* history: byte after lastUnit in its chunk, 0 if none
    unitAtStart,      \* history: lastUnit began its chunk
    screen,           \* the terminal's bottom row and cursor column, as the
                      \* writes of getMultiLineInput leave them
    shownPrompt,      \* history: the prompt getMultiLineInput wrote last
    lastKey,          \* history: last chunk delivered to the menu key-wait
    anyKeyBy,         \* history: chunk that ended the last "press any key" wait
    painted,          \* history: what the last display of the menu wrote
    sendState,        \* sendPrompt: "idle", "attempting" or "waiting" (retry delay)
    attempt,          \* sendPrompt: loop variable of the retry loop, 0 when idle
    replies,          \* history: what each request of the running call met
    sendLog           \* history: the finished sendPrompt calls, in order

sendVars == <<sendState, attempt, replies, sendLog>>
\* what no step of the input engine changes
envVars == <<traced, keyed, build, isTTY, sendVars>>
procVars == <<failure, tempDir, tempDirExists>>
fileVars == <<inputFile, outputFile, lastOutcome>>
unitVars == <<stream, pre, lastUnit, lastFollow, unitAtStart, screen,
              shownPrompt>>
keyVars == <<lastKey, anyKeyBy, painted>>

vars == <<entry, pc, isRaw, originalRawMode, listeners, sinkBroken,
          inputBuffer, currentLine, cursorPos, result, pushed, consumed,
          handled, cancelSeen, resolvedBy, rawBeforeWait, selectedIndex, exitRequested, isProcessing,
          choice, navTrace, idxTrace, exitCode, envVars, procVars, fileVars,
          unitVars, keyVars>>

lineVars == <<inputBuffer, currentLine, cursorPos, result, pushed,
              originalRawMode, handled, cancelSeen>>
menuVars == <<selectedIndex, exitRequested, isProcessing,
              choice, navTrace, idxTrace, resolvedBy, rawBeforeWait>>

(***************************************************************************)
(* Bounds of the exploration                                               *)
(***************************************************************************)
MaxChunk == 3      \* longest chunk delivered by stdin
MaxInput == 5      \* bytes delivered to one getMultiLineInput session
MaxKeys == 4       \* chunks delivered to the file-mode menu
MaxTraceInput == 4 \* bytes delivered to one session when units are recorded
MaxTraceKeys == 4  \* chunks delivered to file mode when keys are recorded
MaxKeyedInput == 8 \* bytes delivered to one session of whole keystrokes
MaxCalls == 2      \* sendPrompt calls followed

\* the budget of the current exploration
InputBudget ==
    IF keyed THEN MaxKeyedInput ELSE IF traced THEN MaxTraceInput ELSE MaxInput
KeyBudget == IF traced THEN MaxTraceKeys ELSE MaxKeys

(***************************************************************************)
(* Byte constants of the decoder                                           *)
(***************************************************************************)
CTRL_C == 3
BS == 8
TAB == 9
LF == 10
CR == 13
ESC == 27
SPACE == 32
DEL == 127
E_ACUTE == 233      \* a character above the printable range
LBRACKET == 91
KEY_UP == 65
KEY_DOWN == 66
KEY_RIGHT == 67
KEY_LEFT == 68
DIGIT_0 == 48
ERASE_K == 75       \* final byte of "\x1b[K"
SGR_M == 109        \* final byte of a colour code, "\x1b[0m"

ARROW_UP == <<ESC, LBRACKET, KEY_UP>>       \* "\u001b[A"
ARROW_DOWN == <<ESC, LBRACKET, KEY_DOWN>>   \* "\u001b[B"
ARROW_RIGHT == <<ESC, LBRACKET, KEY_RIGHT>> \* "\u001b[C"
ARROW_LEFT == <<ESC, LBRACKET, KEY_LEFT>>   \* "\u001b[D"

\* bytes the terminal delivers to the line editor / to the menu
LineBytes == {CTRL_C, BS, LF, CR, ESC, SPACE, KEY_RIGHT, KEY_LEFT, LBRACKET}
MenuBytes == {CTRL_C, LF, CR, ESC, LBRACKET, KEY_UP, KEY_DOWN,
              DIGIT_0 + 1, DIGIT_0 + 2, DIGIT_0 + 3}

RECURSIVE SeqsUpTo(_, _)
SeqsUpTo(S, n) ==
    IF n = 0 THEN {<<>>}
    ELSE LET shorter == SeqsUpTo(S, n - 1)
         IN  shorter \cup {Append(s, b) : s \in {t \in shorter : Len(t) = n - 1}, b \in S}

(***************************************************************************)
(* JavaScript string primitives                                            *)
(***************************************************************************)
\* String.prototype.slice(a, b) with 0 <= a, b (0-based, end exclusive)
slice(s, a, b) == SubSeq(s, a + 1, IF b > Len(s) THEN Len(s) ELSE b)

sliceFrom(s, a) == slice(s, a, Len(s))

\* white space removed by String.prototype.trim (the code units < 128)
IsWhiteSpace(c) == c \in {9, 10, 11, 12, 13, 32}

RECURSIVE trimStart(_)
trimStart(s) ==
    IF s # <<>> /\ IsWhiteSpace(Head(s)) THEN trimStart(Tail(s)) ELSE s

RECURSIVE trimEnd(_)
trimEnd(s) ==
    IF s # <<>> /\ IsWhiteSpace(s[Len(s)])
    THEN trimEnd(SubSeq(s, 1, Len(s) - 1)) ELSE s

trim(s) == trimEnd(trimStart(s))

\* a <= b for JavaScript strings: code-unit lexicographic order
StrLeq(a, b) ==
    \/ /\ Len(a) <= Len(b)
       /\ \A k \in 1..Len(a) : a[k] = b[k]
    \/ \E k \in 1..Len(a) :
          /\ k <= Len(b)
          /\ \A j \in 1..(k - 1) : a[j] = b[j]
          /\ a[k] < b[k]

\* String(n) for a non-negative integer
RECURSIVE String(_)
String(n) ==
    IF n < 10 THEN <<DIGIT_0 + n>>
    ELSE Append(String(n \div 10), DIGIT_0 + (n % 10))

\* Array.prototype.join
RECURSIVE join(_, _)
join(lines, sep) ==
    IF lines = <<>> THEN <<>>
    ELSE IF Len(lines) = 1 THEN lines[1]
    ELSE lines[1] \o sep \o join(Tail(lines), sep)

(***************************************************************************)
(* getMultiLineInput: the line editor                                      *)
(* The handler works on a record s of the closure state it can change:     *)
(*   inputBuffer, currentLine, cursorPos, pushed, isRaw, listeners,        *)
(*   result, handled, cancelSeen, i (loop index, 0-based), base (bytes     *)
(*   delivered before this chunk), st (how the handler left the loop:      *)
(*   "run" still decoding, "resolved", "exit0" process.exit(0),            *)
(*   "uncaught" an exception left the listener)                            *)
(***************************************************************************)

\* process.stdout.write / console.log on the output sink
write(s, broken) == IF broken THEN [s EXCEPT !.st = "uncaught"] ELSE s

\* variant: cleanup switches raw mode off instead of restoring the saved flag
cleanupInput_rawOff(s, orig) ==
    [s EXCEPT !.isRaw = FALSE,
              !.listeners = IF s.listeners > 0 THEN s.listeners - 1 ELSE 0]

\* variant: cleanup restores the raw mode and leaves the listener registered
cleanupInput_keepsListener(s, orig) == [s EXCEPT !.isRaw = orig]

\* const cleanup = () => { setRawMode(originalRawMode); removeListener(...) }
cleanupInput(s, orig) ==
    [s EXCEPT !.isRaw = orig,
              !.listeners = IF s.listeners > 0 THEN s.listeners - 1 ELSE 0]

\* variant: the Cancel branch cleans up but the loop goes on decoding
onCtrlC_continues(s, orig, broken) ==
    write([s EXCEPT !.cancelSeen = s.base + s.i + 1, !.isRaw = orig,
                    !.listeners = IF s.listeners > 0 THEN s.listeners - 1 ELSE 0],
          broken)

\* charCode === 3
onCtrlC(s, orig, broken) ==
    LET c == write(cleanupInput([s EXCEPT !.cancelSeen = s.base + s.i + 1], orig),
                   broken)                          \* cleanup(); showGoodbye()
    IN  IF c.st = "uncaught" THEN c ELSE [c EXCEPT !.st = "exit0"]

\* variant: the current line is appended without the "\n" separator
enterBuffer_noSeparator(buf, line) ==
    IF trim(line) # <<>> \/ buf # <<>>
    THEN IF buf = <<>> THEN line ELSE buf \o line
    ELSE buf

\* the buffer after "Add current line to buffer" of the Enter branch
enterBuffer(buf, line) ==
    IF trim(line) # <<>> \/ buf # <<>>
    THEN IF buf = <<>> THEN line ELSE buf \o <<LF>> \o line
    ELSE buf

\* variant: the byte after "\r" is never looked at
nextIsLF_never(s, input) == FALSE

\* i + 1 < input.length && input.charCodeAt(i + 1) === 10
nextIsLF(s, input) == s.i + 1 < Len(input) /\ input[s.i + 2] = LF

\* variant: Enter sends whenever the buffer is non-empty (trim forgotten)
onEnter_noTrim(s, input, orig, broken) ==
    LET s1 == [s EXCEPT !.i = IF nextIsLF(s, input) THEN s.i + 1 ELSE s.i,
                   !.inputBuffer = enterBuffer(s.inputBuffer, s.currentLine)]
    IN  IF s1.inputBuffer # <<>>
        THEN LET c == write(cleanupInput(s1, orig), broken)
             IN  IF c.st = "uncaught" THEN c
                 ELSE [c EXCEPT !.result = trim(s1.inputBuffer), !.st = "resolved"]
        ELSE write([s1 EXCEPT !.currentLine = <<>>, !.cursorPos = 0], broken)

\* variant: a blank Enter leaves the current line and the cursor alone
onEnter_keepsLine(s, input, orig, broken) ==
    LET s1 == [s EXCEPT !.i = IF nextIsLF(s, input) THEN s.i + 1 ELSE s.i,
                   !.inputBuffer = enterBuffer(s.inputBuffer, s.currentLine)]
    IN  IF trim(s1.inputBuffer) # <<>>
        THEN LET c == write(cleanupInput(s1, orig), broken)
             IN  IF c.st = "uncaught" THEN c
                 ELSE [c EXCEPT !.result = trim(s1.inputBuffer), !.st = "resolved"]
        ELSE write(s1, broken)

\* charCode === 13
onEnter(s, input, orig, broken) ==
    LET s1 == [s EXCEPT !.i = IF nextIsLF(s, input) THEN s.i + 1 ELSE s.i,
                   !.inputBuffer = enterBuffer(s.inputBuffer, s.currentLine)]
    IN  IF trim(s1.inputBuffer) # <<>>
        THEN LET c == write(cleanupInput(s1, orig), broken)
             IN  IF c.st = "uncaught" THEN c
                 ELSE [c EXCEPT !.result = trim(s1.inputBuffer), !.st = "resolved"]
        ELSE write([s1 EXCEPT !.currentLine = <<>>, !.cursorPos = 0], broken)

\* variant: the buffer is overwritten with the current line
onLineFeed_overwrites(s, broken) ==
    write([s EXCEPT !.inputBuffer = s.currentLine,
                    !.pushed = Append(s.pushed, s.currentLine),
                    !.currentLine = <<>>,
                    !.cursorPos = 0], broken)

\* variant: the line feed commits the line but goes on editing it
onLineFeed_keepsLine(s, broken) ==
    write([s EXCEPT !.inputBuffer = IF s.inputBuffer = <<>> THEN s.currentLine
                                    ELSE s.inputBuffer \o <<LF>> \o s.currentLine,
                    !.pushed = Append(s.pushed, s.currentLine)], broken)

\* charCode === 10
onLineFeed(s, broken) ==
    write([s EXCEPT !.inputBuffer = IF s.inputBuffer = <<>> THEN s.currentLine
                                    ELSE s.inputBuffer \o <<LF>> \o s.currentLine,
                    !.pushed = Append(s.pushed, s.currentLine),
                    !.currentLine = <<>>,
                    !.cursorPos = 0], broken)

\* variant: Backspace at column 0 joins the line with the last committed one
onBackspace_merging(s, broken) ==
    IF Len(s.currentLine) > 0 /\ s.cursorPos > 0
    THEN write([s EXCEPT !.currentLine = slice(s.currentLine, 0, s.cursorPos - 1)
                                         \o sliceFrom(s.currentLine, s.cursorPos),
                         !.cursorPos = s.cursorPos - 1], broken)
    ELSE IF s.cursorPos = 0 /\ s.pushed # <<>>
         THEN write([s EXCEPT !.currentLine = s.pushed[Len(s.pushed)] \o s.currentLine,
                              !.cursorPos = Len(s.pushed[Len(s.pushed)]),
                              !.pushed = SubSeq(s.pushed, 1, Len(s.pushed) - 1)],
                    broken)
         ELSE s

\* variant: Backspace removes the character under the cursor
onBackspace_deletesAhead(s, broken) ==
    IF s.cursorPos < Len(s.currentLine)
    THEN write([s EXCEPT !.currentLine = slice(s.currentLine, 0, s.cursorPos)
                                         \o sliceFrom(s.currentLine, s.cursorPos + 1)],
               broken)
    ELSE s

\* charCode === 8 || charCode === 127
onBackspace(s, broken) ==
    IF Len(s.currentLine) > 0 /\ s.cursorPos > 0
    THEN write([s EXCEPT !.currentLine = slice(s.currentLine, 0, s.cursorPos - 1)
                                         \o sliceFrom(s.currentLine, s.cursorPos),
                         !.cursorPos = s.cursorPos - 1], broken)
    ELSE s

\* variant: the character is put at the start of the line, not at the cursor
onPrintable_atStart(s, char, broken) ==
    write([s EXCEPT !.currentLine = <<char>> \o s.currentLine,
                    !.cursorPos = s.cursorPos + 1], broken)

\* charCode >= 32 && charCode <= 126
onPrintable(s, char, broken) ==
    write([s EXCEPT !.currentLine = slice(s.currentLine, 0, s.cursorPos)
                                    \o <<char>>
                                    \o sliceFrom(s.currentLine, s.cursorPos),
                    !.cursorPos = s.cursorPos + 1], broken)

\* variant: the left arrow moves without looking at the column
onLeftArrow_unchecked(s, broken) ==
    write([s EXCEPT !.cursorPos = s.cursorPos - 1], broken)

\* case 68: left arrow
onLeftArrow(s, broken) ==
    IF s.cursorPos > 0
    THEN write([s EXCEPT !.cursorPos = s.cursorPos - 1], broken)
    ELSE s

\* variant: the right arrow moves without looking at the line length
onRightArrow_unchecked(s, broken) ==
    write([s EXCEPT !.cursorPos = s.cursorPos + 1], broken)

\* case 67: right arrow
onRightArrow(s, broken) ==
    IF s.cursorPos < Len(s.currentLine)
    THEN write([s EXCEPT !.cursorPos = s.cursorPos + 1], broken)
    ELSE s

\* variant: an ESC that starts no complete sequence is kept as text
onEscape_keepsEsc(s, input, broken) ==
    IF s.i + 2 < Len(input) /\ input[s.i + 2] = LBRACKET
    THEN LET key == input[s.i + 3]
             s1 == [s EXCEPT !.i = s.i + 2]
         IN  CASE key = KEY_LEFT -> onLeftArrow(s1, broken)
               [] key = KEY_RIGHT -> onRightArrow(s1, broken)
               [] OTHER -> s1
    ELSE onPrintable(s, ESC, broken)

\* charCode === 27
onEscape(s, input, broken) ==
    IF s.i + 2 < Len(input) /\ input[s.i + 2] = LBRACKET
    THEN LET key == input[s.i + 3]
             s1 == [s EXCEPT !.i = s.i + 2]
         IN  CASE key = KEY_LEFT -> onLeftArrow(s1, broken)
               [] key = KEY_RIGHT -> onRightArrow(s1, broken)
               [] OTHER -> s1
    ELSE s

\* variant: a byte that no branch handles is inserted like a character
onDataByte_lenient(s, input, orig, broken) ==
    LET charCode == input[s.i + 1]
    IN  CASE charCode = CTRL_C -> onCtrlC(s, orig, broken)
          [] charCode = CR -> onEnter(s, input, orig, broken)
          [] charCode = LF -> onLineFeed(s, broken)
          [] charCode = BS \/ charCode = DEL -> onBackspace(s, broken)
          [] charCode = ESC -> onEscape(s, input, broken)
          [] OTHER -> onPrintable(s, charCode, broken)

\* one iteration of the for loop body of onData
onDataByte(s, input, orig, broken) ==
    LET charCode == input[s.i + 1]
    IN  CASE charCode = CTRL_C -> onCtrlC(s, orig, broken)
          [] charCode = CR -> onEnter(s, input, orig, broken)
          [] charCode = LF -> onLineFeed(s, broken)
          [] charCode = BS \/ charCode = DEL -> onBackspace(s, broken)
          [] charCode >= 32 /\ charCode <= 126 -> onPrintable(s, charCode, broken)
          [] charCode = ESC -> onEscape(s, input, broken)
          [] OTHER -> s

\* the i++ of the for loop; handled counts the bytes decoded so far
nextIndex(t) == [t EXCEPT !.i = @ + 1, !.handled = t.base + t.i + 1]

\* the editor before anything was decoded
noSnapshot == [inputBuffer |-> <<>>, currentLine |-> <<>>, cursorPos |-> 0,
               pushed |-> <<>>]

(***************************************************************************)
(* What getMultiLineInput writes, and a terminal that shows it             *)
(***************************************************************************)
\* String(n) for n >= 0
RECURSIVE decimal(_)
decimal(n) ==
    IF n < 10 THEN <<DIGIT_0 + n>>
    ELSE decimal(n \div 10) \o <<DIGIT_0 + (n % 10)>>

\* this.ui.getUserPrompt(): bright, cyan, "You:", reset, " "
USER_PROMPT ==
    <<ESC, LBRACKET, DIGIT_0 + 1, SGR_M, ESC, LBRACKET, DIGIT_0 + 3,
      DIGIT_0 + 6, SGR_M, 89, 111, 117, 58, ESC, LBRACKET, DIGIT_0, SGR_M,
      SPACE>>

\* "  > "
CONTINUATION_PROMPT == <<SPACE, SPACE, 62, SPACE>>

\* const moveBack = currentLine.length - cursorPos;
\* if (moveBack > 0) process.stdout.write("\x1b[" + moveBack + "D")
moveBack(t) ==
    IF Len(t.currentLine) - t.cursorPos > 0
    THEN <<ESC, LBRACKET>> \o decimal(Len(t.currentLine) - t.cursorPos)
             \o <<KEY_LEFT>>
    ELSE <<>>

\* variant: after an insertion the cursor is left behind the rewritten tail
echo_noMoveBack(s, t, unit) ==
    CASE unit[1] = CR ->
             IF t.st = "resolved" THEN <<LF>> ELSE <<LF>> \o USER_PROMPT
      [] unit[1] = LF -> <<LF>> \o CONTINUATION_PROMPT
      [] unit[1] = BS \/ unit[1] = DEL ->
             IF Len(s.currentLine) > 0 /\ s.cursorPos > 0
             THEN <<BS, ESC, LBRACKET, ERASE_K>>
                      \o sliceFrom(t.currentLine, t.cursorPos) \o moveBack(t)
             ELSE <<>>
      [] unit[1] >= 32 /\ unit[1] <= 126 ->
             <<unit[1]>> \o sliceFrom(t.currentLine, t.cursorPos)
      [] unit = ARROW_LEFT -> IF s.cursorPos > 0 THEN ARROW_LEFT ELSE <<>>
      [] unit = ARROW_RIGHT ->
             IF s.cursorPos < Len(s.currentLine) THEN ARROW_RIGHT ELSE <<>>
      [] OTHER -> <<>>

\* the bytes one loop iteration writes to stdout, taking the editor from s
\* to t (the farewell of the Ctrl+C branch is not followed)
echo(s, t, unit) ==
    CASE unit[1] = CR ->
             IF t.st = "resolved" THEN <<LF>> ELSE <<LF>> \o USER_PROMPT
      [] unit[1] = LF -> <<LF>> \o CONTINUATION_PROMPT
      [] unit[1] = BS \/ unit[1] = DEL ->
             IF Len(s.currentLine) > 0 /\ s.cursorPos > 0
             THEN <<BS, ESC, LBRACKET, ERASE_K>>
                      \o sliceFrom(t.currentLine, t.cursorPos) \o moveBack(t)
             ELSE <<>>
      [] unit[1] >= 32 /\ unit[1] <= 126 ->
             <<unit[1]>> \o sliceFrom(t.currentLine, t.cursorPos) \o moveBack(t)
      [] unit = ARROW_LEFT -> IF s.cursorPos > 0 THEN ARROW_LEFT ELSE <<>>
      [] unit = ARROW_RIGHT ->
             IF s.cursorPos < Len(s.currentLine) THEN ARROW_RIGHT ELSE <<>>
      [] OTHER -> <<>>

\* the prompt written by one loop iteration, if any
promptAfter(s, t, unit) ==
    CASE unit[1] = CR /\ t.st # "resolved" -> USER_PROMPT
      [] unit[1] = LF -> CONTINUATION_PROMPT
      [] OTHER -> s.shownPrompt

\* a terminal of one row that does not wrap
blankScreen == [row |-> <<>>, col |-> 0]

\* index of the final byte of the control sequence whose parameters start at k
RECURSIVE csiFinal(_, _)
csiFinal(out, k) ==
    IF k > Len(out) THEN k
    ELSE IF out[k] >= 64 THEN k ELSE csiFinal(out, k + 1)

\* value of the decimal digits out[a..b], 0 if there are none
RECURSIVE csiParam(_, _, _)
csiParam(out, a, b) ==
    IF a > b THEN 0
    ELSE 10 * csiParam(out, a, b - 1) + (out[b] - DIGIT_0)

\* the terminal obeys ESC [ n final
termControl(scr, final, n) ==
    LET by == IF n = 0 THEN 1 ELSE n
    IN  CASE final = KEY_LEFT ->
                 [scr EXCEPT !.col = IF @ > by THEN @ - by ELSE 0]
          [] final = KEY_RIGHT -> [scr EXCEPT !.col = @ + by]
          [] final = ERASE_K ->
                 [scr EXCEPT !.row = SubSeq(@, 1, IF scr.col < Len(@)
                                                  THEN scr.col ELSE Len(@))]
          [] OTHER -> scr

\* the terminal prints character c at the cursor
termPut(scr, c) ==
    [row |-> IF scr.col < Len(scr.row)
             THEN [scr.row EXCEPT ![scr.col + 1] = c]
             ELSE scr.row \o [k \in 1..(scr.col - Len(scr.row)) |-> SPACE]
                          \o <<c>>,
     col |-> scr.col + 1]

\* the terminal receives out[k..]; a line feed scrolls the row away and,
\* with output processing left on in raw mode, returns the carriage
RECURSIVE terminal(_, _, _)
terminal(scr, out, k) ==
    IF k > Len(out) THEN scr
    ELSE CASE out[k] = ESC /\ k < Len(out) /\ out[k + 1] = LBRACKET ->
                  LET e == csiFinal(out, k + 2)
                  IN  IF e > Len(out) THEN scr
                      ELSE terminal(termControl(scr, out[e],
                                                csiParam(out, k + 2, e - 1)),
                                    out, e + 1)
           [] out[k] = LF -> terminal(blankScreen, out, k + 1)
           [] out[k] = CR -> terminal([scr EXCEPT !.col = 0], out, k + 1)
           [] out[k] = BS ->
                  terminal([scr EXCEPT !.col = IF @ > 0 THEN @ - 1 ELSE 0],
                           out, k + 1)
           [] out[k] >= 32 /\ out[k] <= 126 ->
                  terminal(termPut(scr, out[k]), out, k + 1)
           [] OTHER -> terminal(scr, out, k + 1)

\* history of one loop iteration that took the editor from s to t: the bytes
\* input[s.i] .. input[t.i] it consumed, the editor before it, whether it
\* began the chunk, and the byte that follows in the chunk (0 at its end)
track(s, t, input) ==
    IF ~s.traced THEN t
    ELSE [t EXCEPT !.stream = s.stream \o SubSeq(input, s.i + 1, t.i + 1),
                   !.pre = [inputBuffer |-> s.inputBuffer,
                            currentLine |-> s.currentLine,
                            cursorPos |-> s.cursorPos,
                            pushed |-> s.pushed],
                   !.lastUnit = SubSeq(input, s.i + 1, t.i + 1),
                   !.unitAtStart = (s.i = 0),
                   !.screen = IF s.keyed /\ t.st # "uncaught"
                              THEN terminal(s.screen,
                                            echo(s, t, SubSeq(input, s.i + 1, t.i + 1)),
                                            1)
                              ELSE s.screen,
                   !.shownPrompt =
                       IF s.keyed /\ t.st # "uncaught"
                       THEN promptAfter(s, t, SubSeq(input, s.i + 1, t.i + 1))
                       ELSE s.shownPrompt,
                   !.lastFollow = IF t.i + 1 < Len(input)
                                  THEN input[t.i + 2] ELSE 0]

\* variant: the loop goes on after the Enter branch has resolved
RECURSIVE onData_decodesOn(_, _, _, _)
onData_decodesOn(s, input, orig, broken) ==
    IF s.i >= Len(input) \/ s.st \notin {"run", "resolved"} THEN s
    ELSE onData_decodesOn(
             nextIndex(track(s, onDataByte(s, input, orig, broken), input)),
             input, orig, broken)

\* for (let i = 0; i < input.length; i++) { ... }
RECURSIVE onData(_, _, _, _)
onData(s, input, orig, broken) ==
    IF s.i >= Len(input) \/ s.st # "run" THEN s
    ELSE onData(nextIndex(track(s, onDataByte(s, input, orig, broken), input)),
                input, orig, broken)

(***************************************************************************)
(* startFileModeInteractive: the menu                                      *)
(***************************************************************************)
STR_EXIT == <<101, 120, 105, 116>>                               \* "exit"
STR_PROCESS_INPUT ==
    <<80, 114, 111, 99, 101, 115, 115, 32, 73, 110, 112, 117, 116>>  \* "Process Input"
STR_EXIT_BRAHMA ==
    <<69, 120, 105, 116, 32, 66, 114, 97, 104, 109, 97>>         \* "Exit Brahma"

options ==
    << [key |-> <<DIGIT_0 + 1>>, label |-> STR_PROCESS_INPUT],
       [key |-> <<DIGIT_0 + 2>>, label |-> STR_EXIT_BRAHMA] >>


\* variant: Up stops at the first option instead of wrapping
menuUp_noWrap(idx) == IF idx > 0 THEN idx - 1 ELSE 0

\* selectedIndex > 0 ? selectedIndex - 1 : options.length - 1
menuUp(idx) == IF idx > 0 THEN idx - 1 ELSE Len(options) - 1

\* variant: Down wraps one step too late (<= in place of <)
menuDown_pastEnd(idx) == IF idx <= Len(options) - 1 THEN idx + 1 ELSE 0

\* variant: Down stops at the last option instead of wrapping
menuDown_noWrap(idx) == IF idx < Len(options) - 1 THEN idx + 1 ELSE idx

\* selectedIndex < options.length - 1 ? selectedIndex + 1 : 0
menuDown(idx) == IF idx < Len(options) - 1 THEN idx + 1 ELSE 0

\* key >= "1" && key <= String(options.length)
isDirectNumber(key) ==
    StrLeq(<<DIGIT_0 + 1>>, key) /\ StrLeq(key, String(Len(options)))

\* nothing of the menu has been written yet
noPaint == [clear |-> FALSE, options |-> <<>>]

\* displayMenu() / renderMenu(): whether the display begins with a
\* full-screen clear, and the option lines it prints, in order, each with
\* its marker; the titles and the hint line are not followed
displayMenu(b, idx) ==
    [clear |-> (b = "alt"),
     options |-> [k \in 1..Len(options) |->
                     [key |-> options[k].key, marked |-> (k - 1 = idx)]]]

\* what onKeyPress does with one chunk:
\*   "cancel", "up", "down", "enter", "direct" or "ignore"
keyKind(key) ==
    CASE key = <<CTRL_C>> -> "cancel"
      [] key = ARROW_UP -> "up"
      [] key = ARROW_DOWN -> "down"
      [] key = <<CR>> \/ key = <<LF>> -> "enter"
      [] isDirectNumber(key) -> "direct"
      [] OTHER -> "ignore"

\* variant: a direct number resolves with the highlighted option
resolvedValue_highlighted(kind, key, idx) ==
    CASE kind = "cancel" -> STR_EXIT
      [] OTHER -> options[idx + 1].key

\* the value onKeyPress passes to resolve
resolvedValue(kind, key, idx) ==
    CASE kind = "cancel" -> STR_EXIT
      [] kind = "enter" -> options[idx + 1].key
      [] OTHER -> key

(***************************************************************************)
(* sendPrompt: the retry loop                                              *)
(***************************************************************************)
RETRY_ATTEMPTS == 3

\* what one request can meet: a body with status "success" or "error", a
\* response that is not ok, a body of unknown format, a FetchError of type
\* "request-timeout", or another FetchError (connection refused)
Replies == {"success", "errorStatus", "httpError", "unknownFormat",
            "timeout", "network"}

\* variant: every failed request is followed by another attempt
shouldRetry_anyError(reply, att) ==
    reply \notin {"success", "errorStatus"} /\ att < RETRY_ATTEMPTS

\* error.name === "FetchError" && error.type === "request-timeout", and
\* attempt < config.RETRY_ATTEMPTS: wait and continue
shouldRetry(reply, att) == reply = "timeout" /\ att < RETRY_ATTEMPTS

\* the call ends: it returns a text or throws
finishCall(res, err, reps) ==
    /\ sendLog' = Append(sendLog, [replies |-> reps, result |-> res, error |-> err])
    /\ sendState' = "idle"
    /\ attempt' = 0
    /\ replies' = <<>>

(***************************************************************************)
(* File contents.  The texts are abbreviated to their first and last       *)
(* characters: only emptiness after trim and equality are ever looked at.  *)
(***************************************************************************)
\* "These are the Test Cases :...given below :" (lib),
\* "While Writing the code ,...given below :\n\n" (alt)
defaultInputContent(b) ==
    IF b = "lib" THEN <<84, 58>> ELSE <<87, 58, LF, LF>>

response == <<82>>                  \* what sendPrompt resolves with
errorMessage == <<69, 58>>          \* "Error: ..."

\* what the user may save into input.txt while the program waits
UserContents == {<<>>, <<SPACE, LF>>, <<81, 63>>}

\* variant: the input file is left as the user wrote it
inputAfter_kept(outcome, content, b) == content

\* input.txt after one "Process Input" request
inputAfter(outcome, content, b) ==
    IF outcome = "ok" THEN defaultInputContent(b) ELSE content

\* output.txt after one "Process Input" request
outputAfter(outcome, content) ==
    CASE outcome = "ok" -> response
      [] outcome = "fail" -> errorMessage
      [] OTHER -> content

(***************************************************************************)
(* Initial state: the caller is about to invoke one public operation.      *)
(* A caller of getMultiLineInput may hold stdin in either mode; the CLI    *)
(* entry point starts file mode on a fresh stdin (isRaw false).  A stdin   *)
(* that is not a terminal has no raw mode (isRaw undefined, read as false).*)
(***************************************************************************)
InitWith(tr, kd, builds, ttys) ==
    /\ entry \in {"getMultiLineInput", "startFileModeInteractive"}
    /\ traced = tr
    /\ keyed = kd
    /\ build \in (IF entry = "getMultiLineInput" THEN {"lib"} ELSE builds)
    /\ isTTY \in ttys
    /\ pc = "idle"
    /\ isRaw \in (IF entry = "getMultiLineInput" /\ isTTY THEN BOOLEAN ELSE {FALSE})
    /\ originalRawMode = FALSE
    /\ listeners = 0
    /\ sinkBroken = FALSE
    /\ inputBuffer = <<>>
    /\ currentLine = <<>>
    /\ cursorPos = 0
    /\ result = <<>>
    /\ pushed = <<>>
    /\ consumed = 0
    /\ handled = 0
    /\ cancelSeen = 0
    /\ resolvedBy = <<>>
    /\ rawBeforeWait = FALSE
    /\ selectedIndex = 0
    /\ exitRequested = FALSE
    /\ isProcessing = FALSE
    /\ choice = <<>>
    /\ navTrace = <<>>
    /\ idxTrace = <<0>>
    /\ exitCode = -1
    /\ failure = "none"
    /\ tempDir = FALSE
    /\ tempDirExists = FALSE
    /\ inputFile = <<>>
    /\ outputFile = <<>>
    /\ lastOutcome = "none"
    /\ stream = <<>>
    /\ pre = noSnapshot
    /\ lastUnit = <<>>
    /\ lastFollow = 0
    /\ unitAtStart = TRUE
    /\ screen = blankScreen
    /\ shownPrompt = <<>>
    /\ lastKey = <<>>
    /\ anyKeyBy = <<>>
    /\ painted = noPaint
    /\ sendState = "idle"
    /\ attempt = 0
    /\ replies = <<>>
    /\ sendLog = <<>>

\* the packaged CLI on a terminal: bin requires ../lib/client
Init == InitWith(FALSE, FALSE, {"lib"}, {TRUE})

\* process.exit(code): the "exit" handler runs cleanup(), which removes the
\* temporary directory when this.tempDir is set
ExitProcess(code, why) ==
    /\ pc' = "exited"
    /\ exitCode' = code
    /\ failure' = why
    /\ tempDirExists' = IF tempDir THEN FALSE ELSE tempDirExists

\* the operation goes on at p
GoOn(p) ==
    /\ pc' = p
    /\ UNCHANGED <<exitCode, failure, tempDirExists>>

\* the output sink starts to fail (closed pipe, terminal gone)
BreakSink ==
    /\ pc \in {"idle", "line", "menuLoop", "menuWait", "choice", "anyKey"}
    /\ ~sinkBroken
    /\ sinkBroken' = TRUE
    /\ UNCHANGED <<entry, pc, isRaw, listeners, lineVars, consumed,
                   menuVars, exitCode, envVars, procVars, fileVars, unitVars,
                   keyVars>>

\* getMultiLineInput: the promise executor up to process.stdin.on("data")
GetMultiLineInput ==
    /\ entry = "getMultiLineInput"
    /\ pc = "idle"
    /\ originalRawMode' = isRaw
    /\ inputBuffer' = <<>>
    /\ currentLine' = <<>>
    /\ cursorPos' = 0
    /\ CASE ~isTTY ->                     \* setRawMode is not a function
              /\ pc' = "lineRejected"
              /\ failure' = "TypeError"
              /\ UNCHANGED <<isRaw, listeners>>
         [] isTTY /\ sinkBroken ->        \* the prompt write throws
              /\ pc' = "lineRejected"
              /\ failure' = "Error"
              /\ isRaw' = TRUE
              /\ UNCHANGED listeners
         [] OTHER ->
              /\ pc' = "line"
              /\ isRaw' = TRUE
              /\ listeners' = listeners + 1
              /\ UNCHANGED failure
    /\ IF keyed /\ pc' = "line"          \* the initial prompt is on the row
       THEN /\ screen' = terminal(screen, USER_PROMPT, 1)
            /\ shownPrompt' = USER_PROMPT
       ELSE UNCHANGED <<screen, shownPrompt>>
    /\ UNCHANGED <<entry, sinkBroken, result, pushed, consumed, handled,
                   cancelSeen, menuVars, exitCode, envVars, tempDir,
                   tempDirExists, fileVars, stream, pre, lastUnit, lastFollow,
                   unitAtStart, keyVars>>

\* the "data" listener of getMultiLineInput receives one chunk
OnData(chunk) ==
    /\ pc = "line"
    /\ listeners > 0
    /\ consumed + Len(chunk) <= InputBudget
    /\ LET s0 == [inputBuffer |-> inputBuffer, currentLine |-> currentLine,
                  cursorPos |-> cursorPos, pushed |-> pushed, isRaw |-> isRaw,
                  listeners |-> listeners, result |-> result, i |-> 0,
                  st |-> "run", base |-> consumed, handled |-> handled,
                  cancelSeen |-> cancelSeen, traced |-> traced,
                  keyed |-> keyed, screen |-> screen,
                  shownPrompt |-> shownPrompt,
                  stream |-> stream, pre |-> pre, lastUnit |-> lastUnit,
                  lastFollow |-> lastFollow, unitAtStart |-> unitAtStart]
       IN  \E s \in {onData(s0, chunk, originalRawMode, sinkBroken)} :
           /\ inputBuffer' = s.inputBuffer
           /\ currentLine' = s.currentLine
           /\ cursorPos' = s.cursorPos
           /\ pushed' = s.pushed
           /\ isRaw' = s.isRaw
           /\ listeners' = s.listeners
           /\ result' = s.result
           /\ handled' = s.handled
           /\ cancelSeen' = s.cancelSeen
           /\ stream' = s.stream
           /\ pre' = s.pre
           /\ lastUnit' = s.lastUnit
           /\ lastFollow' = s.lastFollow
           /\ unitAtStart' = s.unitAtStart
           /\ screen' = s.screen
           /\ shownPrompt' = s.shownPrompt
           /\ CASE s.st = "run" -> GoOn("line")
                [] s.st = "resolved" -> GoOn("lineResolved")
                [] s.st = "exit0" -> ExitProcess(0, "none")
                [] OTHER -> ExitProcess(1, "uncaught")
    /\ consumed' = consumed + Len(chunk)
    /\ UNCHANGED <<entry, originalRawMode, sinkBroken, menuVars, envVars,
                   tempDir, fileVars, keyVars>>

\* startFileModeInteractive up to the main loop
\* install: how "npm install" in the temporary directory ends ("ok", "fail")
StartFileModeInteractive(install) ==
    /\ entry = "startFileModeInteractive"
    /\ pc = "idle"
    /\ isProcessing' = FALSE
    /\ selectedIndex' = 0
    /\ exitRequested' = FALSE
    /\ CASE build = "lib" /\ (sinkBroken \/ install = "fail") ->
              \* createTempEnvironment throws after mkdirSync and before
              \* this.tempDir is assigned; main() reports and exits 1
              /\ pc' = "exited" /\ exitCode' = 1 /\ failure' = "offline"
              /\ tempDirExists' = TRUE
              /\ UNCHANGED <<tempDir, inputFile, outputFile>>
         [] build = "alt" /\ sinkBroken ->
              /\ ExitProcess(1, "offline")
              /\ UNCHANGED <<tempDir, inputFile, outputFile>>
         [] OTHER ->
              /\ pc' = "menuLoop"
              /\ UNCHANGED <<exitCode, failure>>
              /\ tempDir' = (build = "lib")
              /\ tempDirExists' = (build = "lib")
              /\ inputFile' = defaultInputContent(build)
              /\ outputFile' = <<>>
    /\ UNCHANGED <<entry, isRaw, listeners, sinkBroken, lineVars,
                   consumed, choice, navTrace, idxTrace, resolvedBy,
                   rawBeforeWait, envVars, lastOutcome, unitVars, keyVars>>

\* loop head: displayMenu() and the promise executor of the key-wait
MenuWait ==
    /\ pc = "menuLoop"
    /\ ~exitRequested
    /\ IF sinkBroken \/ ~isTTY          \* a write or setRawMode throws
       THEN /\ ExitProcess(1, "offline")
            /\ UNCHANGED <<isRaw, listeners>>
       ELSE /\ isRaw' = TRUE
            /\ listeners' = listeners + 1
            /\ GoOn("menuWait")
    /\ rawBeforeWait' = isRaw
    /\ painted' = IF traced /\ ~sinkBroken
                  THEN displayMenu(build, selectedIndex) ELSE painted
    /\ UNCHANGED <<entry, sinkBroken, lineVars, consumed, selectedIndex,
                   exitRequested, isProcessing, choice, navTrace, idxTrace,
                   resolvedBy, envVars, tempDir, fileVars, unitVars, lastKey,
                   anyKeyBy>>

\* the "data" listener of the key-wait receives one chunk
OnKeyPress(key) ==
    /\ pc = "menuWait"
    /\ listeners > 0
    /\ consumed < KeyBudget
    /\ LET kind == keyKind(key)
       IN  CASE kind \in {"cancel", "enter", "direct"} ->
                  /\ isRaw' = FALSE
                  /\ listeners' = listeners - 1
                  /\ choice' = resolvedValue(kind, key, selectedIndex)
                  /\ GoOn("choice")
                  /\ UNCHANGED <<selectedIndex, navTrace, idxTrace>>
             [] kind \in {"up", "down"} ->
                  /\ selectedIndex' = IF kind = "up" THEN menuUp(selectedIndex)
                                      ELSE menuDown(selectedIndex)
                  /\ navTrace' = Append(navTrace, IF kind = "up" THEN "U" ELSE "D")
                  /\ idxTrace' = Append(idxTrace, selectedIndex')
                  /\ IF sinkBroken            \* displayMenu() throws
                     THEN ExitProcess(1, "uncaught")
                     ELSE GoOn(pc)
                  /\ UNCHANGED <<isRaw, listeners, choice>>
             [] OTHER ->
                  /\ GoOn(pc)
                  /\ UNCHANGED <<isRaw, listeners, choice, selectedIndex,
                                 navTrace, idxTrace>>
    /\ resolvedBy' = IF keyKind(key) \in {"cancel", "enter", "direct"}
                     THEN key ELSE <<>>
    /\ lastKey' = IF traced THEN key ELSE lastKey
    /\ painted' = IF traced /\ ~sinkBroken /\ keyKind(key) \in {"up", "down"}
                  THEN displayMenu(build, selectedIndex') ELSE painted
    /\ consumed' = consumed + 1
    /\ UNCHANGED <<entry, sinkBroken, lineVars, exitRequested, isProcessing,
                   rawBeforeWait, envVars, tempDir, fileVars, unitVars,
                   anyKeyBy>>

\* how a "Process Input" request ends: "empty" when input.txt is blank,
\* otherwise what sendPrompt does ("ok" or "fail")
requestOutcome(content, sent) == IF trim(content) = <<>> THEN "empty" ELSE sent

\* variant: the cancellation result "exit" is not among the exit choices
isExitChoice_noCancel(c) == c \in {<<DIGIT_0 + 2>>, STR_EXIT_BRAHMA}

\* choice === "2" || choice === "Exit Brahma" || choice === "exit"
isExitChoice(c) == c \in {<<DIGIT_0 + 2>>, STR_EXIT_BRAHMA, STR_EXIT}

\* variant: without the finally block only the empty-input path resets
\* the flag
processingAfter_noFinally(outcome) == outcome # "empty"

\* isProcessing when the try statement of a request is left:
\* finally { isProcessing = false; }
processingAfter(outcome) == FALSE

\* the loop body after the key-wait: "Process user choice"
\* sent: what sendPrompt does with the request ("ok", "fail")
ProcessChoice(sent) ==
    /\ pc = "choice"
    /\ LET isOne == choice = <<DIGIT_0 + 1>> \/ choice = STR_PROCESS_INPUT
           isExit == isExitChoice(choice)
           outcome == requestOutcome(inputFile, sent)
       IN  CASE build = "lib" /\ sinkBroken ->      \* screen clear throws
                  /\ ExitProcess(1, "offline")
                  /\ UNCHANGED <<exitRequested, isProcessing, isRaw,
                                 listeners, fileVars>>
             [] build = "lib" /\ ~sinkBroken /\ isOne /\ isProcessing ->
                  \* "Already processing a request": continue, through finally
                  /\ lastOutcome' = IF traced THEN "busy" ELSE lastOutcome
                  /\ isProcessing' = FALSE
                  /\ GoOn("menuLoop")
                  /\ UNCHANGED <<exitRequested, isRaw, listeners, inputFile,
                                 outputFile>>
             [] build = "lib" /\ ~sinkBroken /\ isOne /\ ~isProcessing ->
                  /\ inputFile' = inputAfter(outcome, inputFile, build)
                  /\ outputFile' = outputAfter(outcome, outputFile)
                  /\ lastOutcome' = IF traced THEN outcome ELSE lastOutcome
                  /\ isProcessing' = processingAfter(outcome)
                  /\ GoOn("menuLoop")
                  /\ UNCHANGED <<exitRequested, isRaw, listeners>>
             [] build = "lib" /\ ~sinkBroken /\ isExit ->
                  \* this.showModeSelection is not defined: TypeError,
                  \* the rejection reaches main(), which exits with 1
                  /\ exitRequested' = TRUE
                  /\ ExitProcess(1, "offline")
                  /\ UNCHANGED <<isProcessing, isRaw, listeners, fileVars>>
             [] build = "alt" /\ sinkBroken /\ isOne ->
                  \* renderMenu throws in the try block and again in catch
                  /\ outputFile' = errorMessage
                  /\ lastOutcome' = IF traced THEN "fail" ELSE lastOutcome
                  /\ isProcessing' = FALSE                \* finally
                  /\ ExitProcess(1, "offline")
                  /\ UNCHANGED <<exitRequested, isRaw, listeners, inputFile>>
             [] build = "alt" /\ ~sinkBroken /\ isOne /\ isProcessing ->
                  \* "Already processing a request", then waitForKeyPress
                  /\ lastOutcome' = IF traced THEN "busy" ELSE lastOutcome
                  /\ isRaw' = TRUE
                  /\ listeners' = listeners + 1
                  /\ GoOn("anyKey")
                  /\ UNCHANGED <<exitRequested, isProcessing, inputFile,
                                 outputFile>>
             [] build = "alt" /\ ~sinkBroken /\ isOne /\ ~isProcessing ->
                  \* ends in waitForKeyPress, inside the try block
                  /\ inputFile' = inputAfter(outcome, inputFile, build)
                  /\ outputFile' = outputAfter(outcome, outputFile)
                  /\ lastOutcome' = IF traced THEN outcome ELSE lastOutcome
                  /\ isProcessing' = TRUE
                  /\ isRaw' = TRUE
                  /\ listeners' = listeners + 1
                  /\ GoOn("anyKey")
                  /\ UNCHANGED exitRequested
             [] build = "alt" /\ isExit ->
                  /\ exitRequested' = TRUE
                  /\ IF sinkBroken              \* console.log throws
                     THEN ExitProcess(1, "offline")
                     ELSE ExitProcess(0, "none")  \* cleanup(); process.exit(0)
                  /\ UNCHANGED <<isProcessing, isRaw, listeners, fileVars>>
             [] OTHER ->
                  /\ GoOn("menuLoop")
                  /\ UNCHANGED <<exitRequested, isProcessing, isRaw,
                                 listeners, fileVars>>
    /\ painted' = IF /\ traced /\ build = "alt" /\ ~sinkBroken
                     /\ (choice = <<DIGIT_0 + 1>> \/ choice = STR_PROCESS_INPUT)
                  THEN displayMenu(build, selectedIndex)   \* renderMenu(status)
                  ELSE painted
    /\ choice' = <<>>                       \* const choice of this iteration
    /\ resolvedBy' = <<>>
    /\ lastKey' = IF pc' = "exited" THEN lastKey ELSE <<>>
    /\ UNCHANGED <<entry, sinkBroken, lineVars, consumed, selectedIndex,
                   navTrace, idxTrace, rawBeforeWait, envVars, tempDir,
                   unitVars, anyKeyBy>>

\* waitForKeyPress: the once("data") listener receives one chunk
AnyKey(key) ==
    /\ pc = "anyKey"
    /\ listeners > 0
    /\ consumed < KeyBudget
    /\ isRaw' = FALSE
    /\ listeners' = listeners - 1
    /\ isProcessing' = FALSE
    /\ anyKeyBy' = key
    /\ GoOn("menuLoop")
    /\ consumed' = consumed + 1
    /\ UNCHANGED <<entry, sinkBroken, lineVars, selectedIndex, exitRequested,
                   choice, navTrace, idxTrace, resolvedBy, rawBeforeWait,
                   envVars, tempDir, fileVars, unitVars, lastKey, painted>>

\* the user saves input.txt while the program waits for a key
EditInput(content) ==
    /\ pc \in {"menuWait", "anyKey"}
    /\ content # inputFile
    /\ inputFile' = content
    /\ UNCHANGED <<entry, pc, isRaw, listeners, sinkBroken, lineVars,
                   consumed, menuVars, exitCode, envVars, procVars,
                   outputFile, lastOutcome, unitVars, keyVars>>

\* the SIGINT and SIGTERM handlers of setupCleanupHandlers
Signal(sig) ==
    /\ entry = "startFileModeInteractive"
    /\ pc \in {"menuLoop", "menuWait", "choice", "anyKey"}
    /\ IF sig = "SIGINT" /\ sinkBroken     \* showGoodbye throws in the handler
       THEN ExitProcess(1, "uncaught")
       ELSE ExitProcess(0, "none")
    /\ UNCHANGED <<entry, isRaw, listeners, sinkBroken, lineVars, consumed,
                   menuVars, envVars, tempDir, fileVars, unitVars, keyVars>>

\* what the send actions leave alone
engineVars == <<entry, pc, isRaw, originalRawMode, listeners, inputBuffer,
                currentLine, cursorPos, result, pushed, consumed, handled,
                cancelSeen, menuVars, exitCode, traced, keyed, build, isTTY,
                procVars, fileVars, unitVars, keyVars>>

\* sendPrompt is called
\* ready: this.fetch has been set by createTempEnvironment
SendPrompt(ready) ==
    /\ sendState = "idle"
    /\ Len(sendLog) < MaxCalls
    /\ IF ready
       THEN /\ sendState' = "attempting"
            /\ attempt' = 1
            /\ UNCHANGED <<replies, sendLog>>
       ELSE finishCall("thrown", "notInitialized", <<>>)
    /\ UNCHANGED <<engineVars, sinkBroken>>

\* one iteration of the retry loop: the request and what follows it
\* reply: what the request meets
Attempt(reply) ==
    /\ sendState = "attempting"
    /\ attempt <= RETRY_ATTEMPTS
    /\ IF sinkBroken                \* showInfo throws, caught and rethrown
       THEN finishCall("thrown", "Error", replies)
       ELSE LET reps == Append(replies, reply)
            IN  CASE reply \in {"success", "errorStatus"} ->
                       finishCall("returned", "none", reps)
                  [] shouldRetry(reply, attempt) ->
                       /\ sendState' = "waiting"
                       /\ replies' = reps
                       /\ UNCHANGED <<attempt, sendLog>>
                  [] reply = "timeout" ->
                       \* the loop ends: "Request failed after ... attempts"
                       finishCall("thrown", "failedAfter", reps)
                  [] OTHER -> finishCall("thrown", reply, reps)
    /\ UNCHANGED <<engineVars, sinkBroken>>

\* the retry delay is over: continue
RetryDelay ==
    /\ sendState = "waiting"
    /\ sendState' = "attempting"
    /\ attempt' = attempt + 1
    /\ UNCHANGED <<replies, sendLog, engineVars, sinkBroken>>

\* the chunks stdin can deliver: non-empty, at most MaxChunk bytes
LineChunks == [n \in 0..MaxChunk |-> SeqsUpTo(LineBytes, n) \ {<<>>}]
MenuChunks == SeqsUpTo(MenuBytes, MaxChunk) \ {<<>>}
TracedLineChunks ==
    [n \in 0..MaxChunk |->
        SeqsUpTo(LineBytes \cup {DEL, KEY_UP, KEY_DOWN}, n) \ {<<>>}]

\* whole keystrokes, one per chunk, as a terminal delivers them
WholeKeys ==
    {<<CTRL_C>>, <<CR>>, <<LF>>, <<CR, LF>>, <<ESC>>, ARROW_UP, ARROW_DOWN,
     <<DIGIT_0 + 1>>, <<DIGIT_0 + 2>>}

\* several keystrokes that arrive as one chunk (fast typing, a paste)
JoinedKeys == {ARROW_DOWN \o <<CR>>, ARROW_DOWN \o ARROW_DOWN}

\* the keystrokes of a line being edited, one per chunk; a character that
\* arrives together with the key typed after it; pasted text with a tab and
\* a character above the printable range
EditKeys ==
    {<<KEY_RIGHT>>, <<LF>>, <<CR>>,
     ARROW_UP, ARROW_DOWN, ARROW_RIGHT, ARROW_LEFT,
     <<KEY_LEFT>> \o ARROW_LEFT, <<KEY_RIGHT, DEL>>,
     <<TAB, KEY_RIGHT, E_ACUTE>>, <<E_ACUTE, KEY_RIGHT, TAB>>}

\* the chunks the exploration still delivers in the current state
LineChunksLeft ==
    IF pc = "line" /\ consumed < InputBudget
    THEN IF keyed
         THEN {k \in EditKeys : consumed + Len(k) <= InputBudget}
         ELSE (IF traced THEN TracedLineChunks ELSE LineChunks)
                  [IF InputBudget - consumed < MaxChunk
                   THEN InputBudget - consumed ELSE MaxChunk]
    ELSE {}
MenuChunksLeft ==
    IF pc = "menuWait" /\ consumed < KeyBudget
    THEN (IF traced THEN WholeKeys \cup JoinedKeys ELSE MenuChunks)
    ELSE {}
\* what the backend does in the current exploration: the byte-level
\* exploration of the keys runs against a backend that answers
SendOutcomes == IF traced THEN {"ok", "fail"} ELSE {"ok"}
AnyKeysLeft == IF pc = "anyKey" /\ consumed < KeyBudget THEN WholeKeys ELSE {}

Next ==
    \/ BreakSink
    \/ GetMultiLineInput
    \/ \E chunk \in LineChunksLeft : OnData(chunk)
    \/ StartFileModeInteractive("ok")
    \/ MenuWait
    \/ \E key \in MenuChunksLeft : OnKeyPress(key)
    \/ \E sent \in SendOutcomes : ProcessChoice(sent)

Spec == Init /\ [][Next]_vars

(***************************************************************************)
(* The recorded exploration of file mode: whole keystrokes with their      *)
(* history, on either client, with or without a terminal, with the user    *)
(* editing input.txt, npm install failing, the backend failing, the        *)
(* output sink failing, and signals arriving.                              *)
(***************************************************************************)
InitTraced ==
    InitWith(TRUE, FALSE, {"lib", "alt"}, BOOLEAN) /\ entry = "startFileModeInteractive"

NextTraced ==
    \/ BreakSink
    \/ \E install \in {"ok", "fail"} : StartFileModeInteractive(install)
    \/ MenuWait
    \/ \E key \in MenuChunksLeft : OnKeyPress(key)
    \/ \E sent \in SendOutcomes : ProcessChoice(sent)
    \/ \E key \in AnyKeysLeft : AnyKey(key)
    \/ \E content \in UserContents : EditInput(content)
    \/ \E sig \in {"SIGINT", "SIGTERM"} : Signal(sig)

SpecTraced == InitTraced /\ [][NextTraced]_vars

(***************************************************************************)
(* The recorded exploration of one getMultiLineInput session: short        *)
(* sessions over every byte the decoder tells apart, in every division     *)
(* into chunks, with the history of every decoded unit, on an output sink  *)
(* that works, called with stdin in cooked mode.                           *)
(***************************************************************************)
InitLine ==
    /\ InitWith(TRUE, FALSE, {"lib"}, BOOLEAN)
    /\ entry = "getMultiLineInput"
    /\ ~isRaw                         \* the caller holds stdin in cooked mode

NextLine ==
    \/ GetMultiLineInput
    \/ \E chunk \in LineChunksLeft : OnData(chunk)

SpecLine == InitLine /\ [][NextLine]_vars

\* a getMultiLineInput session on a terminal that delivers whole keystrokes
InitKeys ==
    /\ InitWith(TRUE, TRUE, {"lib"}, BOOLEAN)
    /\ entry = "getMultiLineInput"
    /\ ~isRaw

SpecKeys == InitKeys /\ [][NextLine]_vars

\* the input engine in both modes: a session of whole keystrokes, or file
\* mode with its menu
InitEngine ==
    /\ InitWith(TRUE, TRUE, {"lib", "alt"}, BOOLEAN)
    /\ entry = "getMultiLineInput" => ~isRaw

NextEngine ==
    \/ NextLine
    \/ entry = "startFileModeInteractive" /\ NextTraced

SpecEngine == InitEngine /\ [][NextEngine]_vars

\* sendPrompt called on a client, any number of times in a row
InitSend ==
    InitWith(TRUE, FALSE, {"lib"}, {TRUE}) /\ entry = "startFileModeInteractive"

NextSend ==
    \/ \E ready \in BOOLEAN : SendPrompt(ready)
    \/ \E reply \in Replies : Attempt(reply)
    \/ RetryDelay
    \/ sendState # "idle" /\ BreakSink

SpecSend == InitSend /\ [][NextSend]_vars

TypeOK ==
    /\ pc \in {"idle", "line", "lineResolved", "lineRejected", "menuLoop",
               "menuWait", "choice", "anyKey", "exited"}
    /\ isRaw \in BOOLEAN
    /\ listeners \in 0..1
    /\ cursorPos \in 0..InputBudget
    /\ exitCode \in {-1, 0, 1}
    /\ build \in {"lib", "alt"}
    /\ keyed \in BOOLEAN
    /\ sendState \in {"idle", "attempting", "waiting"}
    /\ attempt \in 0..RETRY_ATTEMPTS
    /\ failure \in {"none", "TypeError", "Error", "offline", "uncaught"}
    /\ tempDir \in BOOLEAN /\ tempDirExists \in BOOLEAN
    /\ lastOutcome \in {"none", "empty", "ok", "fail", "busy"}
    /\ Len(stream) <= InputBudget

(***************************************************************************)
(* Properties                                                              *)
(***************************************************************************)
optionKeys == {options[k].key : k \in 1..Len(options)}

HasNonWhiteSpace(line) == \E k \in 1..Len(line) : ~IsWhiteSpace(line[k])

RECURSIVE Count(_, _)
Count(trace, x) ==
    IF trace = <<>> THEN 0
    ELSE (IF Head(trace) = x THEN 1 ELSE 0) + Count(Tail(trace), x)

\* the index that the navigation keys handled so far lead to from option 0
NetIndex == (Count(navTrace, "D") - Count(navTrace, "U")) % Len(options)

\* C1: whenever getMultiLineInput resolves, the returned string is the lines
\* pushed by NewLine, in order, followed by the current line, joined with
\* "\n" and trimmed.
Thm_C1 ==
    pc = "lineResolved" =>
        result = trim(join(Append(pushed, currentLine), <<LF>>))

\* "C" LF "D" CR has returned "C\nD"
Wit_C1 ==
    /\ pc = "lineResolved"
    /\ pushed = << <<KEY_RIGHT>> >>
    /\ currentLine = <<KEY_LEFT>>
    /\ result = <<KEY_RIGHT, LF, KEY_LEFT>>

\* C2: a Submit on a buffer without any non-whitespace character never
\* resolves: whenever getMultiLineInput has resolved, some pushed line or the
\* current line holds a non-whitespace character, and the returned string is
\* neither empty nor whitespace-only.
Thm_C2 ==
    pc = "lineResolved" =>
        /\ \/ HasNonWhiteSpace(currentLine)
           \/ \E k \in 1..Len(pushed) : HasNonWhiteSpace(pushed[k])
        /\ result # <<>>
        /\ HasNonWhiteSpace(result)

\* " " LF CR: the Submit on the blank buffer was absorbed, the loop goes on
Wit_C2 ==
    /\ pc = "line"
    /\ pushed = << <<SPACE>> >>
    /\ inputBuffer = <<SPACE, LF>>
    /\ currentLine = <<>>

\* C3: when getMultiLineInput or the menu key-wait finishes, by resolving or
\* by cancellation, stdin's raw-mode flag has the value it had before the
\* operation began.
Thm_C3 ==
    /\ (pc = "lineResolved" \/ cancelSeen > 0) => isRaw = originalRawMode
    /\ pc = "choice" => isRaw = rawBeforeWait

\* getMultiLineInput was entered in raw mode and has resolved in raw mode
Wit_C3 ==
    /\ pc = "lineResolved"
    /\ originalRawMode
    /\ isRaw

\* C4: if a write to the output sink fails while the input loop holds raw
\* mode, raw mode is released before control leaves the loop.
Claim_C4 ==
    (sinkBroken /\ pc \in {"lineRejected", "exited"}) =>
        isRaw = (IF entry = "getMultiLineInput" THEN originalRawMode
                 ELSE rawBeforeWait)

\* C5: when the line editor decodes byte 0x03, raw mode is restored and the
\* listener removed, the process has exited, no byte after the 0x03 has been
\* decoded and getMultiLineInput has not resolved with text.
Thm_C5 ==
    cancelSeen > 0 =>
        /\ pc = "exited"
        /\ isRaw = originalRawMode
        /\ listeners = 0
        /\ handled = cancelSeen
        /\ result = <<>>

\* Cancel in a chunk that had more bytes after the 0x03, entered in raw mode
Wit_C5 ==
    /\ cancelSeen > 0
    /\ consumed > cancelSeen
    /\ pc = "exited"
    /\ originalRawMode

\* C6: the menu key-wait resolves only to the key of a listed option or to
\* the cancellation value.
Claim_C6 == pc = "choice" => choice \in optionKeys \cup {STR_EXIT}

\* C7: a chunk that is one digit d resolves the menu only if 1 <= d <=
\* len(options), and then with options[d-1].key whatever selectedIndex is.
Thm_C7 ==
    (pc = "choice" /\ Len(resolvedBy) = 1
                   /\ resolvedBy[1] \in (DIGIT_0 + 1)..(DIGIT_0 + 9)) =>
        LET d == resolvedBy[1] - DIGIT_0
        IN  /\ d <= Len(options)
            /\ choice = options[d].key

\* digit "1" pressed while the second option is highlighted
Wit_C7 ==
    /\ pc = "choice"
    /\ resolvedBy = <<DIGIT_0 + 1>>
    /\ selectedIndex = 1
    /\ choice = options[1].key

\* C8: Enter resolves the menu with options[selectedIndex].key for the index
\* the navigation keys so far lead to.
Thm_C8 ==
    (pc = "choice" /\ resolvedBy \in {<<CR>>, <<LF>>}) =>
        /\ selectedIndex = NetIndex
        /\ choice = options[NetIndex + 1].key

\* Down, Down, Enter has selected key "1"
Wit_C8 ==
    /\ pc = "choice"
    /\ navTrace = <<"D", "D">>
    /\ resolvedBy = <<CR>>
    /\ choice = <<DIGIT_0 + 1>>

\* C9: n times Up followed by n times Down leaves selectedIndex where it was.
Thm_C9 ==
    \A n \in 0..(Len(navTrace) \div 2) :
        LET last == Len(navTrace)
        IN  (/\ \A k \in (last - 2 * n + 1)..(last - n) : navTrace[k] = "U"
             /\ \A k \in (last - n + 1)..last : navTrace[k] = "D")
            => idxTrace[last + 1] = idxTrace[last - 2 * n + 1]

\* Down, then Up and Down: back at the second option
Wit_C9 ==
    /\ navTrace = <<"D", "U", "D">>
    /\ idxTrace = <<0, 1, 0, 1>>
    /\ selectedIndex = 1

\* C10: the cursor of the line editor always lies inside the current line.
Thm_C10 == 0 <= cursorPos /\ cursorPos <= Len(currentLine)

\* two characters typed, then Left: the cursor is inside the line
Wit_C10 ==
    /\ pc = "line"
    /\ Len(currentLine) = 2
    /\ cursorPos = 1

(***************************************************************************)
(* Properties of the recorded exploration (SpecTraced)                     *)
(***************************************************************************)
IsPrintable(c) == c >= 32 /\ c <= 126

\* C11: starting from an empty current line, after any sequence of printable
\* bytes (32-126) and nothing else, the current line is the concatenation of
\* those characters in input order and the cursor is at its end.
Thm_C11 ==
    (\A k \in 1..Len(stream) : IsPrintable(stream[k])) =>
        currentLine = stream /\ cursorPos = Len(stream)

\* "C D" typed over two chunks
Wit_C11 ==
    /\ pc = "line"
    /\ stream = <<KEY_RIGHT, SPACE, KEY_LEFT>>
    /\ consumed = 3 /\ lastFollow = 0 /\ pre.currentLine = <<KEY_RIGHT, SPACE>>
    /\ currentLine = stream
    /\ cursorPos = 3

\* C12: Backspace (byte 8 or 127) with the cursor at column 0 changes
\* nothing: current line, cursor and committed lines are as before and no
\* previous line is merged, also when committed lines exist.
Thm_C12 ==
    (lastUnit \in {<<BS>>, <<DEL>>} /\ pre.cursorPos = 0) =>
        /\ currentLine = pre.currentLine
        /\ cursorPos = 0
        /\ pushed = pre.pushed
        /\ inputBuffer = pre.inputBuffer

\* "C", LineFeed, then DEL on the empty second line
Wit_C12 ==
    /\ lastUnit = <<DEL>>
    /\ pre.cursorPos = 0
    /\ pre.pushed = << <<KEY_RIGHT>> >>
    /\ pushed = << <<KEY_RIGHT>> >>
    /\ inputBuffer = <<KEY_RIGHT>>
    /\ currentLine = <<>>

Claim_C19 ==
    (\E k \in 1..Len(lastUnit) : lastUnit[k] = CTRL_C) => cancelSeen > 0

\* C14: in menu mode, a CR immediately followed by LF yields exactly one
\* MenuConfirm: the key-wait resolves with options[selectedIndex].key.
Claim_C14 ==
    (lastKey = <<CR, LF>> /\ pc \in {"menuWait", "choice"}) =>
        pc = "choice" /\ choice = options[selectedIndex + 1].key

\* C15: in file mode, selecting "Exit Brahma" or pressing Ctrl+C at the menu
\* ends the program completely: cleanup has run and the process exits with
\* code 0, without passing through an error path.
Claim_C15 ==
    (pc = "exited" /\ exitRequested /\ ~sinkBroken) =>
        exitCode = 0 /\ failure = "none" /\ ~tempDirExists

\* the operation failed because stdin has no raw mode: getMultiLineInput
\* rejected, or file mode was set up and the first key-wait threw
RawModeRefused ==
    /\ ~isTTY
    /\ \/ pc = "lineRejected"
       \/ /\ pc = "exited" /\ exitCode = 1 /\ ~sinkBroken
          /\ inputFile = defaultInputContent(build)

\* C16: when raw mode cannot be acquired (stdin is not a terminal), the
\* failure the caller observes differs from the failures the same operations
\* report when a terminal is there.
Claim_C16 == RawModeRefused => failure \notin {"Error", "offline", "uncaught"}

\* C17: on every termination path the client's cleanup has run and the
\* temporary directory no longer exists when the process ends.
Claim_C17 == pc = "exited" => ~tempDirExists

\* C18: in file mode, once a "Process Input" request has been processed and
\* its result written to output.txt, input.txt holds the default template
\* again, for every request of a session.
Thm_C18 ==
    [][(/\ pc = "choice"
        /\ choice \in {<<DIGIT_0 + 1>>, STR_PROCESS_INPUT}
        /\ pc' \in {"menuLoop", "anyKey"}
        /\ lastOutcome' = "ok")
       => (outputFile' = response /\ inputFile' = defaultInputContent(build))]_vars

\* the second request of a session on the alt client: the first one ended at
\* the "press any key" prompt, the third key selected "Process Input" again
Wit_C18 ==
    /\ build = "alt"
    /\ pc = "anyKey"
    /\ anyKeyBy # <<>>
    /\ consumed = 3
    /\ lastOutcome = "ok"
    /\ outputFile = response
    /\ inputFile = defaultInputContent(build)

\* C20: whenever the file-mode loop waits for a key in raw mode, at the menu
\* or at the "press any key" prompt, a Ctrl+C keystroke leads to the exit
\* path.
Claim_C20 ==
    /\ lastKey = <<CTRL_C>> =>
           pc = "exited" \/ (pc = "choice" /\ choice = STR_EXIT)
    /\ anyKeyBy = <<CTRL_C>> => pc = "exited"

\* C22: in menu mode, a chunk that holds several complete key units yields
\* one event per unit, in order: Down then CR moves the highlight and
\* resolves with the option it reached; Down Down moves it twice.
Claim_C22 ==
    /\ (lastKey = ARROW_DOWN \o <<CR>> /\ pc \in {"menuWait", "choice"}) =>
           /\ pc = "choice"
           /\ navTrace # <<>> /\ navTrace[Len(navTrace)] = "D"
           /\ choice = options[selectedIndex + 1].key
    /\ (lastKey = ARROW_DOWN \o ARROW_DOWN /\ pc = "menuWait") =>
           /\ Len(navTrace) >= 2
           /\ navTrace[Len(navTrace)] = "D" /\ navTrace[Len(navTrace) - 1] = "D"

\* C25: in every reachable state of the menu 0 <= selectedIndex < n, with n
\* the number of options; every MenuUp has set it to (selectedIndex - 1 + n)
\* mod n and every MenuDown to (selectedIndex + 1) mod n.
Thm_C25 ==
    /\ 0 <= selectedIndex /\ selectedIndex < Len(options)
    /\ Len(idxTrace) = Len(navTrace) + 1
    /\ selectedIndex = idxTrace[Len(idxTrace)]
    /\ \A k \in 1..Len(navTrace) :
           idxTrace[k + 1] =
               IF navTrace[k] = "U"
               THEN (idxTrace[k] - 1 + Len(options)) % Len(options)
               ELSE (idxTrace[k] + 1) % Len(options)

\* Up from the first option wraps to the last, two Downs wrap back to it
Wit_C25 ==
    /\ pc = "menuWait"
    /\ navTrace = <<"U", "D", "D">>
    /\ idxTrace = <<0, 1, 0, 1>>
    /\ lastKey = ARROW_DOWN

\* C26: Cancel (Ctrl+C) at the menu has the same outcome as selecting the
\* exit option: the loop body takes either resolved value, "exit" or the key
\* of "Exit Brahma", through the same step to the same final state, which
\* depends on the client and on the output sink only.
Thm_C26 ==
    [][(/\ pc = "choice" /\ choice \in {STR_EXIT, options[2].key}
        /\ choice' = <<>>)
       => (/\ pc' = "exited"
           /\ exitRequested' = ~(build = "lib" /\ sinkBroken)
           /\ exitCode' = IF build = "alt" /\ ~sinkBroken THEN 0 ELSE 1
           /\ failure' = IF exitCode' = 0 THEN "none" ELSE "offline"
           /\ tempDirExists' = (tempDirExists /\ ~tempDir)
           /\ UNCHANGED <<isRaw, listeners, selectedIndex, isProcessing,
                          inputFile, outputFile, tempDir, sinkBroken>>)]_vars

\* the program has ended after Ctrl+C at the menu, on the client that exits 0
Wit_C26 ==
    /\ pc = "exited"
    /\ exitRequested
    /\ lastKey = <<CTRL_C>>
    /\ build = "alt"
    /\ exitCode = 0

(***************************************************************************)
(* Properties of the recorded line session (SpecLine)                      *)
(***************************************************************************)
\* the editor right after getMultiLineInput has registered its listener
sessionStart ==
    [inputBuffer |-> <<>>, currentLine |-> <<>>, cursorPos |-> 0,
     pushed |-> <<>>, isRaw |-> TRUE, listeners |-> 1, result |-> <<>>,
     i |-> 0, st |-> "run", base |-> 0, handled |-> 0, cancelSeen |-> 0,
     traced |-> FALSE, stream |-> <<>>, pre |-> noSnapshot,
     lastUnit |-> <<>>, lastFollow |-> 0, unitAtStart |-> TRUE]

\* the session after the listener has decoded input as one single chunk
decodedAsOneChunk(input) == onData(sessionStart, input, originalRawMode, sinkBroken)

\* C21: for a byte stream without ESC, the events decoded in line-edit mode,
\* and so the buffer states and the result, do not depend on the division of
\* the stream into chunks: they are those of the stream taken as one chunk.
Claim_C21 ==
    (pc \in {"line", "lineResolved"} /\ \A k \in 1..Len(stream) : stream[k] # ESC) =>
        \A w \in {decodedAsOneChunk(stream)} :
            /\ w.pushed = pushed
            /\ w.inputBuffer = inputBuffer
            /\ w.currentLine = currentLine
            /\ w.cursorPos = cursorPos
            /\ w.result = result
            /\ (w.st = "resolved") = (pc = "lineResolved")

ArrowFinals == {KEY_UP, KEY_DOWN, KEY_RIGHT, KEY_LEFT}

\* the editor is as it was before the last decoded unit
EditorAsBefore ==
    /\ currentLine = pre.currentLine
    /\ cursorPos = pre.cursorPos
    /\ pushed = pre.pushed
    /\ inputBuffer = pre.inputBuffer

\* the last unit is one byte that came right after a lone ESC in one chunk
AfterEscInChunk ==
    /\ Len(lastUnit) = 1
    /\ ~unitAtStart
    /\ Len(stream) >= 2 /\ stream[Len(stream) - 1] = ESC
    /\ ~(Len(stream) >= 4 /\ stream[Len(stream) - 3] = ESC
                          /\ stream[Len(stream) - 2] = LBRACKET)

\* C23: an ESC sequence within one chunk that is not ESC [ A/B/C/D produces
\* no event: the editor is the same after it as before it and none of its
\* characters is inserted.
Claim_C23 ==
    /\ (Len(lastUnit) = 3 /\ lastUnit[1] = ESC /\ lastUnit[3] \notin ArrowFinals)
           => EditorAsBefore
    /\ (AfterEscInChunk /\ IsPrintable(lastUnit[1])) => EditorAsBefore

\* the stream is printable bytes followed by ESC [ A, and "[A" was decoded
\* in a later chunk than the ESC
SplitUpArrow ==
    /\ Len(stream) >= 3
    /\ SubSeq(stream, Len(stream) - 2, Len(stream)) = <<ESC, LBRACKET, KEY_UP>>
    /\ \A k \in 1..(Len(stream) - 3) : IsPrintable(stream[k])
    /\ lastUnit = <<KEY_UP>>
    /\ ~unitAtStart

\* C24: when an arrow sequence is split across two chunks (ESC at the end of
\* one, "[A" at the start of the next), the ESC produces no event and "["
\* and "A" are inserted into the current line as two printable characters.
Thm_C24 ==
    SplitUpArrow =>
        /\ currentLine = SubSeq(stream, 1, Len(stream) - 3) \o <<LBRACKET, KEY_UP>>
        /\ cursorPos = Len(currentLine)
        /\ pushed = <<>> /\ inputBuffer = <<>>
        /\ pc = "line"

\* "C" ESC in one chunk, "[A" in the next: the line reads "C[A"
Wit_C24 ==
    /\ SplitUpArrow
    /\ stream = <<KEY_RIGHT, ESC, LBRACKET, KEY_UP>>
    /\ currentLine = <<KEY_RIGHT, LBRACKET, KEY_UP>>
    /\ cursorPos = 3

IsPrefix(a, b) == Len(a) <= Len(b) /\ SubSeq(b, 1, Len(a)) = a

\* C27: within one session, committed text is never altered or removed by a
\* later event: after every step the committed text, and the list of lines
\* pushed by NewLine, have their earlier value as a prefix.
Thm_C27 ==
    [][IsPrefix(inputBuffer, inputBuffer') /\ IsPrefix(pushed, pushed')]_vars

\* "C" and "D" committed by two NewLines
Wit_C27 ==
    /\ pc = "line"
    /\ inputBuffer = <<KEY_RIGHT, LF, KEY_LEFT>>
    /\ pushed = << <<KEY_RIGHT>>, <<KEY_LEFT>> >>
    /\ pre.inputBuffer = <<KEY_RIGHT>>

\* the last decoded unit was an Enter that did not return
AbsorbedSubmit == lastUnit # <<>> /\ lastUnit[1] = CR /\ pc = "line"

\* C28: a Submit that is absorbed because the buffer is blank is a no-op on
\* the buffer: committed text, current line and cursor are the same after it
\* as before it.
Claim_C28 ==
    AbsorbedSubmit =>
        /\ inputBuffer = pre.inputBuffer
        /\ currentLine = pre.currentLine
        /\ cursorPos = pre.cursorPos

\* C28 as amended: an absorbed Submit returns nothing and discards the blank
\* current line: afterwards the current line is empty and the cursor at 0,
\* the committed text is still blank and has its earlier value as a prefix,
\* no line was pushed and the session goes on listening.
Thm_C28 ==
    AbsorbedSubmit =>
        /\ trim(pre.currentLine) = <<>>
        /\ currentLine = <<>> /\ cursorPos = 0
        /\ trim(inputBuffer) = <<>> /\ IsPrefix(pre.inputBuffer, inputBuffer)
        /\ pushed = pre.pushed
        /\ result = <<>> /\ listeners = 1

\* " " LF " " CR: the blank buffer " " has grown to " \n " and the line is gone
Wit_C28 ==
    /\ AbsorbedSubmit
    /\ pre.currentLine = <<SPACE>> /\ pre.cursorPos = 1
    /\ pre.inputBuffer = <<SPACE>>
    /\ inputBuffer = <<SPACE, LF, SPACE>>
    /\ currentLine = <<>> /\ cursorPos = 0

\* the last decoded unit was a lone line feed
NewLineUnit == lastUnit = <<LF>>

\* C29: NewLine always adds exactly one line, equal to the current line at
\* that moment and also when that line is empty, to the end of the committed
\* lines, then leaves the current line empty and the cursor at 0, and never
\* resolves the session.  With lines committed before, adding a line means
\* appending the separator and the line to the committed text.
Claim_C29 ==
    NewLineUnit =>
        /\ pc = "line" /\ result = <<>>
        /\ currentLine = <<>> /\ cursorPos = 0
        /\ pushed = Append(pre.pushed, pre.currentLine)
        /\ inputBuffer = IF pre.pushed = <<>> THEN pre.currentLine
                         ELSE pre.inputBuffer \o <<LF>> \o pre.currentLine

\* C29 as amended: NewLine adds the current line to the end of the committed
\* text, after a separator when that text is not empty; while the committed
\* text is empty the line becomes the whole text, so an empty line leaves
\* it empty.  It then leaves the current line empty and the cursor at 0, and
\* never resolves the session.
Thm_C29 ==
    NewLineUnit =>
        /\ pc = "line" /\ result = <<>> /\ listeners = 1
        /\ currentLine = <<>> /\ cursorPos = 0
        /\ inputBuffer = IF pre.inputBuffer = <<>> THEN pre.currentLine
                         ELSE pre.inputBuffer \o <<LF>> \o pre.currentLine

\* "C" LF LF: the empty second line is committed after a separator
Wit_C29 ==
    /\ NewLineUnit
    /\ pre.currentLine = <<>> /\ pre.inputBuffer = <<KEY_RIGHT>>
    /\ inputBuffer = <<KEY_RIGHT, LF>>
    /\ currentLine = <<>> /\ cursorPos = 0 /\ pc = "line"

(***************************************************************************)
(* Properties of a session of whole keystrokes (SpecKeys)                  *)
(***************************************************************************)
\* the last decoded unit was ESC [ followed by key
ArrowUnit(key) == lastUnit = <<ESC, LBRACKET, key>>

\* the text is as it was before the last decoded unit
TextAsBefore ==
    /\ currentLine = pre.currentLine
    /\ pushed = pre.pushed
    /\ inputBuffer = pre.inputBuffer

\* C30: arrow-key sequences never change the text: ESC [ C and ESC [ D leave
\* the current line and the committed lines unchanged and move the cursor by
\* exactly one column unless it is already at the end or at column 0;
\* ESC [ A and ESC [ B change neither text nor cursor.
Thm_C30 ==
    /\ (\E key \in ArrowFinals : ArrowUnit(key)) => TextAsBefore /\ pc = "line"
    /\ ArrowUnit(KEY_RIGHT) =>
           cursorPos = IF pre.cursorPos < Len(pre.currentLine)
                       THEN pre.cursorPos + 1 ELSE pre.cursorPos
    /\ ArrowUnit(KEY_LEFT) =>
           cursorPos = IF pre.cursorPos > 0
                       THEN pre.cursorPos - 1 ELSE pre.cursorPos
    /\ (ArrowUnit(KEY_UP) \/ ArrowUnit(KEY_DOWN)) => cursorPos = pre.cursorPos

\* "C", "D" with Left, then Right: the cursor goes from column 1 to column 2
\* of the two-character line
Wit_C30 ==
    /\ ArrowUnit(KEY_RIGHT)
    /\ currentLine = <<KEY_RIGHT, KEY_LEFT>>
    /\ pre.currentLine = currentLine
    /\ inputBuffer = <<>>
    /\ pre.cursorPos = 1 /\ cursorPos = 2

(***************************************************************************)
(* Properties of the input engine in both modes (SpecEngine)               *)
(***************************************************************************)
\* the last decoded unit is one byte, a control byte other than 3, 8, 10, 13
\* and 27 or a code above top
DroppedByte(top) ==
    /\ Len(lastUnit) = 1
    /\ \/ lastUnit[1] < 32 /\ lastUnit[1] \notin {CTRL_C, BS, LF, CR, ESC}
       \/ lastUnit[1] > top

\* the line session is as before the last unit, still listening, and the
\* loop has decoded the chunk to its end
LineGoesOn ==
    /\ EditorAsBefore
    /\ pc = "line" /\ result = <<>> /\ listeners = 1 /\ isRaw
    /\ lastFollow = 0 /\ handled = consumed

\* a step in which the menu key-wait receives a chunk that is none of its keys
IgnoredMenuChunk ==
    /\ pc = "menuWait" /\ consumed' = consumed + 1
    /\ lastKey' \notin {<<CTRL_C>>, ARROW_UP, ARROW_DOWN, <<CR>>, <<LF>>}
    /\ ~isDirectNumber(lastKey')

\* the menu is as before and goes on waiting
MenuGoesOn ==
    /\ pc' = "menuWait"
    /\ UNCHANGED <<selectedIndex, choice, isRaw, listeners, exitRequested,
                   isProcessing, exitCode, navTrace, idxTrace, inputFile,
                   outputFile>>

\* C31: a byte that matches no decoding rule (a control byte other than 3, 8,
\* 10, 13, 27, or a code above 126) changes nothing in line-edit mode, and a
\* chunk that matches no menu key changes nothing in menu mode: state is
\* unchanged, nothing is resolved, and decoding of later input continues.
Claim_C31 ==
    /\ [](DroppedByte(126) => LineGoesOn)
    /\ [][IgnoredMenuChunk => MenuGoesOn]_vars

\* C31 as amended: the same for a control byte other than 3, 8, 10, 13, 27
\* or a code above 127 (127 is Backspace), and for a chunk that matches no
\* menu key.
Thm_C31 ==
    /\ [](DroppedByte(127) => LineGoesOn)
    /\ [][IgnoredMenuChunk => MenuGoesOn]_vars

\* tab, "C", e-acute pasted as one chunk: only the "C" is in the line
Wit_C31 ==
    /\ DroppedByte(127) /\ lastUnit = <<E_ACUTE>>
    /\ stream = <<TAB, KEY_RIGHT, E_ACUTE>>
    /\ currentLine = <<KEY_RIGHT>> /\ cursorPos = 1
    /\ pc = "line"

\* the last decoded unit was an InsertChar, Backspace, CursorLeft or
\* CursorRight
EditUnit ==
    /\ lastUnit # <<>>
    /\ \/ Len(lastUnit) = 1 /\ (IsPrintable(lastUnit[1]) \/ lastUnit[1] \in {BS, DEL})
       \/ ArrowUnit(KEY_LEFT) \/ ArrowUnit(KEY_RIGHT)

\* what the terminal shows of the prompt written last
visiblePrompt == terminal(blankScreen, shownPrompt, 1).row

\* C32: on a simulated one-row terminal without wrapping, after every
\* InsertChar, Backspace, CursorLeft or CursorRight the row shows the prompt
\* followed by exactly the current line, and the terminal cursor column
\* equals prompt length plus cursorPos.
Thm_C32 ==
    (EditUnit /\ pc = "line") =>
        /\ screen.row = visiblePrompt \o currentLine
        /\ screen.col = Len(visiblePrompt) + cursorPos

\* "C", "D" with Left, then "C" with Backspace in the middle of the line:
\* the row reads "You: CD" with the cursor on the "D"
Wit_C32 ==
    /\ EditUnit /\ lastUnit = <<DEL>> /\ pc = "line"
    /\ pre.currentLine = <<KEY_RIGHT, KEY_RIGHT, KEY_LEFT>> /\ pre.cursorPos = 2
    /\ screen.row = <<89, 111, 117, 58, SPACE, KEY_RIGHT, KEY_LEFT>>
    /\ screen.col = 6

\* every option is on the last display and exactly the selected one is marked
AllOptionsShown ==
    /\ Len(painted.options) = Len(options)
    /\ \A k \in 1..Len(options) :
           /\ painted.options[k].key = options[k].key
           /\ painted.options[k].marked = (k - 1 = selectedIndex)

\* C33: every menu repaint, the first display and each one after a MenuUp or
\* MenuDown, starts with a full-screen clear and then prints every option
\* with the selected one marked.
Claim_C33 == pc = "menuWait" => painted.clear /\ AllOptionsShown

\* C34: menu state does not carry over between menu appearances: when the
\* menu is shown again after a selection was confirmed, selectedIndex is
\* back at its initial value 0, whatever navigation happened before.
Claim_C34 == [][(pc = "menuLoop" /\ pc' = "menuWait") => selectedIndex' = 0]_vars

(***************************************************************************)
(* Properties of sendPrompt (SpecSend)                                     *)
(***************************************************************************)
\* the requests of one call: at most RETRY_ATTEMPTS, each but the last one
\* met a request timeout
RetriedOnlyOnTimeout(reps) ==
    /\ Len(reps) <= RETRY_ATTEMPTS
    /\ \A k \in 1..(Len(reps) - 1) : reps[k] = "timeout"

\* a finished call whose last request failed has thrown: the error itself
\* when it was no timeout, and "failed after" when the last attempt timed out
FailurePropagates(call) ==
    LET n == Len(call.replies)
    IN  (n > 0 /\ call.error # "Error") =>
            /\ call.replies[n] \in {"httpError", "unknownFormat", "network"} =>
                   call.result = "thrown" /\ call.error = call.replies[n]
            /\ call.replies[n] = "timeout" =>
                   n = RETRY_ATTEMPTS /\ call.result = "thrown"

\* C35: sendPrompt makes at most RETRY_ATTEMPTS attempts per call; a further
\* attempt is made only after a request-timeout error, any other error
\* propagates at once without a retry, and when the last attempt times out
\* the call throws.
Thm_C35 ==
    /\ attempt <= RETRY_ATTEMPTS
    /\ RetriedOnlyOnTimeout(replies)
    /\ sendState = "waiting" =>
           replies # <<>> /\ replies[Len(replies)] = "timeout"
    /\ \A c \in 1..Len(sendLog) :
           RetriedOnlyOnTimeout(sendLog[c].replies) /\ FailurePropagates(sendLog[c])

\* a call whose three attempts timed out has thrown, after one that
\* stopped at a refused connection on its second attempt
Wit_C35 ==
    /\ Len(sendLog) = 2
    /\ sendLog[1].replies = <<"timeout", "network">>
    /\ sendLog[1].result = "thrown"
    /\ sendLog[2].replies = <<"timeout", "timeout", "timeout">>
    /\ sendLog[2].result = "thrown" /\ sendLog[2].error = "failedAfter"

\* C36: once a Submit has committed, the bytes that follow it in the same
\* chunk are discarded: they are never applied to the buffer and cannot
\* change the value the session resolved with.
Thm_C36 ==
    pc = "lineResolved" =>
        /\ lastUnit # <<>> /\ lastUnit[1] = CR
        /\ handled = Len(stream) /\ handled <= consumed
        /\ result = trim(enterBuffer(pre.inputBuffer, pre.currentLine))
        /\ inputBuffer = enterBuffer(pre.inputBuffer, pre.currentLine)
        /\ currentLine = pre.currentLine /\ cursorPos = pre.cursorPos
        /\ pushed = pre.pushed
        /\ listeners = 0

\* "C", Enter and "D" in one chunk: resolved with "C", the "D" never decoded
Wit_C36 ==
    /\ pc = "lineResolved"
    /\ stream = <<KEY_RIGHT, CR>> /\ lastFollow = KEY_LEFT
    /\ consumed = 3 /\ handled = 2
    /\ result = <<KEY_RIGHT>> /\ currentLine = <<KEY_RIGHT>>

\* C37: at most one stdin data listener of the input engine is registered at
\* any time, and none remains registered after the line session or the menu
\* key-wait has resolved, over any number of successive menu appearances.
Thm_C37 ==
    /\ listeners <= 1
    /\ pc \in {"lineResolved", "choice", "menuLoop"} => listeners = 0

\* the key-wait of the third menu appearance has resolved
Wit_C37 ==
    /\ pc = "choice" /\ consumed = 3 /\ build = "lib"
    /\ lastOutcome = "ok"
    /\ listeners = 0

\* the editor of the current state, as the handlers take it
editorNow ==
    [inputBuffer |-> inputBuffer, currentLine |-> currentLine,
     cursorPos |-> cursorPos, pushed |-> pushed, st |-> "run"]

\* printable characters tried at every reachable line and cursor position
SampleChars == {SPACE, KEY_RIGHT, LBRACKET, 126}

\* a step in which one chunk brought a printable character and a Backspace
InsertThenBackspace ==
    /\ pc = "line"
    /\ Len(stream') = Len(stream) + 2
    /\ SubSeq(stream', 1, Len(stream)) = stream
    /\ IsPrintable(stream'[Len(stream) + 1])
    /\ stream'[Len(stream) + 2] \in {BS, DEL}

\* C38: for every current line and every cursor position in it, inserting a
\* printable character and then pressing Backspace restores the current
\* line and the cursor to exactly their earlier values and leaves the
\* committed lines unchanged.
Thm_C38 ==
    /\ [](pc = "line" =>
             \A c \in SampleChars :
                 onBackspace(onPrintable(editorNow, c, FALSE), FALSE) = editorNow)
    /\ [][InsertThenBackspace =>
              UNCHANGED <<currentLine, cursorPos, inputBuffer, pushed, pc>>]_vars

\* "D" with Left, then "C" with Backspace at column 0: the line is "D" again
\* and the cursor back at column 0
Wit_C38 ==
    /\ stream = <<KEY_LEFT, ESC, LBRACKET, KEY_LEFT, KEY_RIGHT, DEL>>
    /\ pre.currentLine = <<KEY_RIGHT, KEY_LEFT>> /\ pre.cursorPos = 1
    /\ currentLine = <<KEY_LEFT>> /\ cursorPos = 0
    /\ pc = "line"

\* C39: in the file-mode loop, isProcessing is false every time the menu
\* waits for a key, on every path through a request (success, empty input,
\* failure), so the "Already processing a request" branch is never taken.
Thm_C39 ==
    /\ pc \in {"menuLoop", "menuWait", "choice"} => ~isProcessing
    /\ lastOutcome # "busy"

\* the menu waits again after a request that failed
Wit_C39 ==
    /\ pc = "menuWait" /\ ~isProcessing
    /\ lastOutcome = "fail"
    /\ outputFile = errorMessage
    /\ consumed >= 1

====
